---- MODULE Spec2Model ----
(***************************************************************************)
(* mrml: the root parser of an MJML document (elements/mjml.rs), the       *)
(* mj-column parser and its attribute cascade (mj_column/parser.rs), the   *)
(* mj-breakpoint head element (head/mj_breakpoint.rs) and the public       *)
(* entry points parse / to_title / to_preview / to_html / to_email         *)
(* (lib.rs).                                                               *)
(***************************************************************************)
EXTENDS Integers, Sequences, FiniteSets, TLC

\* ------------------------------------------------------------------ bounds
MaxAttrs == 2          \* attribute tokens on one tag
MaxChildren == 2       \* text / comment tokens inside one mj-column
MaxItems == 2          \* children of the <mjml> root
MaxHeadChildren == 2   \* children of one mj-head (single-head documents)
MaxCalls == 3          \* getter calls on one built document

\* ------------------------------------------------------- sequence helpers
SeqsUpTo(S, n) == UNION {[1..k -> S] : k \in 0..n}

RECURSIVE FilterSeq(_, _)
FilterSeq(s, keep) ==
  IF s = <<>> THEN <<>>
  ELSE IF Head(s) \in keep THEN <<Head(s)>> \o FilterSeq(Tail(s), keep)
       ELSE FilterSeq(Tail(s), keep)

\* ------------------------------------------------------------------ sizes
Pixel(n) == [unit |-> "px", n |-> n]
Percent(n) == [unit |-> "%", n |-> n]

\* str::parse::<Size>(): Ok(size) as <<size>>, Err as <<>>
ParseSize(s) ==
  CASE s = "600px" -> <<Pixel(600)>>
    [] s = "320px" -> <<Pixel(320)>>
    [] s = "50%" -> <<Percent(50)>>
    [] OTHER -> <<>>

\* ------------------------------------------------------- attribute store
EmptyAttributes == [k \in {} |-> ""]

\* Attributes::merge(other): other's entries overwrite / extend
Merge(a, b) ==
  [k \in DOMAIN a \cup DOMAIN b |-> IF k \in DOMAIN b THEN b[k] ELSE a[k]]

\* Attributes::set(name, value): last write wins
AttrSet(a, name, value) == Merge(a, name :> value)

RECURSIVE SetAll(_, _)
SetAll(a, pairs) ==
  IF pairs = <<>> THEN a
  ELSE SetAll(AttrSet(a, Head(pairs)[1], Head(pairs)[2]), Tail(pairs))

Tags == {"mj-column", "mj-text"}

\* Header.default_attributes.concat_attributes(tag, defaults, attrs)
ConcatAttributes(default_attributes, tag, defaults, attrs) ==
  Merge(Merge(defaults, default_attributes[tag]), attrs)

\* ------------------------------------------------------------- the header
NoDefaults == [t \in Tags |-> EmptyAttributes]

HeaderFrom(opts) ==
  [breakpoint |-> opts.breakpoint,
   default_attributes |-> NoDefaults,
   title |-> "",
   preview |-> "",
   media_queries |-> {}]

\* --------------------------------------------------------- mj-breakpoint
\* position of the first attribute named "width", 0 when there is none
FirstWidth(attrs) ==
  LET hits == {i \in DOMAIN attrs : attrs[i][1] = "width"}
  IN IF hits = {} THEN 0 ELSE CHOOSE i \in hits : \A j \in hits : i <= j

LastWidth(attrs) ==
  LET hits == {i \in DOMAIN attrs : attrs[i][1] = "width"}
  IN IF hits = {} THEN 0 ELSE CHOOSE i \in hits : \A j \in hits : i >= j

\* faulty variant: takes the last width attribute instead of the first
MJBreakpointParseLast(attrs) ==
  [value |-> IF LastWidth(attrs) = 0 THEN <<>>
             ELSE ParseSize(attrs[LastWidth(attrs)][2])]

\* MJBreakpoint::parse: never an Err; value is an Option (<<>> or <<size>>)
MJBreakpointParse(attrs) ==
  [value |-> IF FirstWidth(attrs) = 0 THEN <<>>
             ELSE ParseSize(attrs[FirstWidth(attrs)][2])]

\* faulty variant: the parsed size is never written
BreakpointUpdateHeaderNoop(elem, header) == header

\* HeadComponent for MJBreakpoint :: update_header
BreakpointUpdateHeader(elem, header) ==
  IF elem.value # <<>> THEN [header EXCEPT !.breakpoint = elem.value[1]]
  ELSE header

\* ------------------------------------------------------------ token tree
\* what the tokenizer hands over: element / text / comment nodes, and
\* "tokerr" where the tokenizer fails
Node(kind, tag, attrs, children, text) ==
  [kind |-> kind, tag |-> tag, attrs |-> attrs, children |-> children, text |-> text]

Element(tag, attrs, children) == Node("element", tag, attrs, children, "")
CommentNode(text) == Node("comment", "", <<>>, <<>>, text)
TextNode(text) == Node("text", "", <<>>, <<>>, text)
TokErr == Node("tokerr", "", <<>>, <<>>, "")

\* parser::parse with parser::Options { keep_comments }: a comment is
\* dropped before it reaches the tree when the option is off
RECURSIVE DropComments(_, _)
DropComments(nodes, keep_comments) ==
  IF keep_comments \/ nodes = <<>> THEN nodes
  ELSE IF Head(nodes).kind = "comment" THEN DropComments(Tail(nodes), keep_comments)
  ELSE <<[Head(nodes) EXCEPT !.children = DropComments(@, keep_comments)]>>
         \o DropComments(Tail(nodes), keep_comments)

RECURSIVE HasTokErr(_)
HasTokErr(nodes) ==
  /\ nodes # <<>>
  /\ \/ Head(nodes).kind = "tokerr"
     \/ HasTokErr(Head(nodes).children)
     \/ HasTokErr(Tail(nodes))

\* --------------------------------------------------------------- errors
Err(kind, tag) == [kind |-> kind, tag |-> tag]
UnexpectedElement(tag) == Err("UnexpectedElement", tag)
InvalidChild == Err("InvalidChild", "")
ParserError == Err("ParserError", "")

\* -------------------------------------------------------------- mj-column
DEFAULT_ATTRIBUTES == ("direction" :> "ltr") @@ ("vertical-align" :> "top")

\* MJColumnParser::new(header, extra); extra is an Option (<<>> or <<attrs>>)
MJColumnParserNew(header, extra) ==
  [header |-> header, extra |-> extra, attributes |-> EmptyAttributes, children |-> <<>>]

\* MJColumnParser::parse_attribute
ColumnParseAttribute(p, name, value) ==
  [p EXCEPT !.attributes = AttrSet(@, name, value)]

\* faulty variant: the comment hook drops the comment
ColumnParseChildCommentDrop(p, value) == p

\* MJColumnParser::parse_child_comment
ColumnParseChildComment(p, value) ==
  [p EXCEPT !.children = Append(@, [kind |-> "comment", value |-> value])]

\* MJColumnParser::parse_child_text
ColumnParseChildText(p, value) ==
  [p EXCEPT !.children = Append(@, [kind |-> "text", value |-> value])]

\* faulty variant: the inherited layer is merged last, over the local declarations
MJColumnBuildExtraLast(p) ==
  LET base == ConcatAttributes(p.header.default_attributes, "mj-column",
                               DEFAULT_ATTRIBUTES, p.attributes)
  IN [attributes |-> IF p.extra # <<>> THEN Merge(base, p.extra[1]) ELSE base,
      context |-> "None",
      children |-> p.children]

\* MJColumnParser::build
MJColumnBuild(p) ==
  LET base == ConcatAttributes(p.header.default_attributes, "mj-column",
                               DEFAULT_ATTRIBUTES, p.attributes)
      withExtra == IF p.extra # <<>> THEN Merge(base, p.extra[1]) ELSE base
  IN [attributes |-> Merge(withExtra, p.attributes),
      context |-> "None",
      children |-> p.children]

\* one child token of a column handed to its hook
ColumnParseChild(p, child) ==
  IF child.kind = "comment" THEN ColumnParseChildComment(p, child.text)
  ELSE ColumnParseChildText(p, child.text)

RECURSIVE ColumnParseAttributes(_, _)
ColumnParseAttributes(p, attrs) ==
  IF attrs = <<>> THEN p
  ELSE ColumnParseAttributes(ColumnParseAttribute(p, Head(attrs)[1], Head(attrs)[2]),
                             Tail(attrs))

RECURSIVE ColumnParseChildren(_, _)
ColumnParseChildren(p, children) ==
  IF children = <<>> THEN p
  ELSE ColumnParseChildren(ColumnParseChild(p, Head(children)), Tail(children))

\* MJColumn::parse: MJColumnParser::new(header, extra).parse(tokenizer)?.build()
MJColumnParse(node, header, extra) ==
  MJColumnBuild(
    ColumnParseChildren(
      ColumnParseAttributes(MJColumnParserNew(header, extra), node.attrs),
      node.children))

\* render of a column's leaves: a comment leaf prints its text
RenderLeaf(child) ==
  IF child.kind = "comment" THEN <<"<!--", child.value, "-->">> ELSE <<child.value>>

RECURSIVE RenderLeaves(_)
RenderLeaves(children) ==
  IF children = <<>> THEN <<>>
  ELSE RenderLeaf(Head(children)) \o RenderLeaves(Tail(children))

\* ----------------------------------------------------------------- mj-head
\* text content of an element such as mj-title
TextOf(node) ==
  IF node.children # <<>> /\ node.children[1].kind = "text"
  THEN node.children[1].text ELSE ""

\* mj-attributes: each child <tag attr=.../> registers per-tag defaults
RECURSIVE RegisterDefaults(_, _)
RegisterDefaults(defaults, children) ==
  IF children = <<>> THEN defaults
  ELSE LET c == Head(children)
           next == IF c.kind = "element" /\ c.tag \in Tags
                   THEN [defaults EXCEPT ![c.tag] = SetAll(@, c.attrs)]
                   ELSE defaults
       IN RegisterDefaults(next, Tail(children))

HeadTags == {"mj-breakpoint", "mj-title", "mj-preview", "mj-attributes"}

\* one known head child applied to the header
HeadApplyChild(header, child) ==
  CASE child.tag = "mj-breakpoint" ->
         BreakpointUpdateHeader(MJBreakpointParse(child.attrs), header)
    [] child.tag = "mj-title" -> [header EXCEPT !.title = TextOf(child)]
    [] child.tag = "mj-preview" -> [header EXCEPT !.preview = TextOf(child)]
    [] child.tag = "mj-attributes" ->
         [header EXCEPT !.default_attributes = RegisterDefaults(@, child.children)]
    [] OTHER -> header

RECURSIVE HeadParseChildren(_, _)
HeadParseChildren(header, children) ==
  IF children = <<>> THEN [ok |-> TRUE, header |-> header, err |-> <<>>]
  ELSE LET c == Head(children)
       IN IF c.kind # "element" THEN HeadParseChildren(header, Tail(children))
          ELSE IF c.tag \notin HeadTags
          THEN [ok |-> FALSE, header |-> header, err |-> <<UnexpectedElement(c.tag)>>]
          ELSE HeadParseChildren(HeadApplyChild(header, c), Tail(children))

\* MJHead::empty(options)
MJHeadEmpty(opts) == [header |-> HeaderFrom(opts)]

\* MJHead::parse(tokenizer, options): children in document order
MJHeadParse(node, opts) ==
  LET r == HeadParseChildren(HeaderFrom(opts), node.children)
  IN [ok |-> r.ok, head |-> [header |-> r.header], err |-> r.err]

\* MJHead::get_title / get_preview
HeadGetTitle(head) == head.header.title
HeadGetPreview(head) == head.header.preview

\* MJHead::render(&header)
HeadRender(head, header) ==
  [title |-> header.title, preview |-> header.preview,
   breakpoint |-> header.breakpoint, media_queries |-> header.media_queries]

\* ----------------------------------------------------------------- mj-body
\* MJBody::empty
MJBodyEmpty == [children |-> <<>>, context |-> "None"]

RECURSIVE BodyParseChildren(_, _, _)
BodyParseChildren(children, header, acc) ==
  IF children = <<>> THEN [ok |-> TRUE, children |-> acc, err |-> <<>>]
  ELSE LET c == Head(children)
       IN IF c.kind # "element" THEN BodyParseChildren(Tail(children), header, acc)
          ELSE IF c.tag # "mj-column"
          THEN [ok |-> FALSE, children |-> acc, err |-> <<UnexpectedElement(c.tag)>>]
          ELSE BodyParseChildren(Tail(children), header,
                                 Append(acc, MJColumnParse(c, header, <<>>)))

\* MJBody::parse(tokenizer, header)
MJBodyParse(node, header) ==
  LET r == BodyParseChildren(node.children, header, <<>>)
  IN [ok |-> r.ok, body |-> [children |-> r.children, context |-> "None"], err |-> r.err]

\* MJBody::update_header(&mut header): each column registers its media query
BodyUpdateHeader(body, header) ==
  [header EXCEPT !.media_queries =
     @ \cup {"mj-column-per-100" : i \in DOMAIN body.children}]

\* MJBody::render(&header)
BodyRender(body, header) ==
  [i \in DOMAIN body.children |->
     [attributes |-> body.children[i].attributes,
      breakpoint |-> header.breakpoint,
      content |-> RenderLeaves(body.children[i].children)]]

\* ------------------------------------------------------------------ state
VARIABLES
  options,     \* the Options handed to the entry point
  input,       \* the markup: the root node as the tokenizer would deliver it
  pc,          \* "start", "root", "children", "done"
  tokens,      \* children of <mjml> still to be consumed
  parser,      \* MJMLElementParser { options, context, head, body }
  bodyHeader,  \* the header argument of the last MJBody::parse call
  result,      \* Result<MJMLElement, Error> of parse
  calls,       \* getter calls made on the built document, with their output
  ret,         \* what an entry point (to_title, ...) returned
  colIn,       \* mj-column alone: header, extra, option and raw node
  colPc,       \* "start", "attrs", "children", "built"
  colNode,     \* the column's tokens still to be consumed
  colParser,   \* MJColumnParser { header, extra, attributes, children }
  column,      \* the built MJColumn
  bpIn,        \* mj-breakpoint alone: the node's attributes
  bpPc,        \* "parse", "update", "done"
  bpElem,      \* the MJBreakpoint
  bpHeader     \* the header it updates

docVars == <<options, input, pc, tokens, parser, bodyHeader, result, calls, ret>>
colVars == <<colIn, colPc, colNode, colParser, column>>
bpVars == <<bpIn, bpPc, bpElem, bpHeader>>
vars == <<docVars, colVars, bpVars>>

\* Options::default(): breakpoint Size::Pixel(480.0), keep_comments true
DefaultBreakpoint == 480
OptionsDefault == [breakpoint |-> Pixel(DefaultBreakpoint), keep_comments |-> TRUE]

Pending == [status |-> "pending", doc |-> <<>>, err |-> <<>>]
Ok(doc) == [status |-> "ok", doc |-> <<doc>>, err |-> <<>>]
Failed(err) == [status |-> "err", doc |-> <<>>, err |-> <<err>>]

\* MJMLElementParser::new(options)
MJMLElementParserNew(opts) ==
  [options |-> opts, context |-> "None", head |-> MJHeadEmpty(opts), body |-> <<>>]

NoParser == MJMLElementParserNew(OptionsDefault)

\* ------------------------------------------------------------- the inputs
Width(v) == <<<<"width", v>>>>
Bp(attrs) == Element("mj-breakpoint", attrs, <<>>)
Title(t) == Element("mj-title", <<>>, <<TextNode(t)>>)
Preview(t) == Element("mj-preview", <<>>, <<TextNode(t)>>)
AttrsFor(tag, attrs) == Element("mj-attributes", <<>>, <<Element(tag, attrs, <<>>)>>)
Column(attrs, children) == Element("mj-column", attrs, children)

HeadChildren ==
  {Bp(Width("600px")), Bp(Width("320px")), Bp(Width("abc")), Bp(<<>>),
   Title("Hello"), Preview("Peek"),
   AttrsFor("mj-column", <<<<"direction", "rtl">>>>),
   Element("mj-blink", <<>>, <<>>)}

DocHeads ==
  {<<>>,
   <<Bp(Width("600px"))>>,
   <<Title("Hello"), Preview("Peek")>>,
   <<AttrsFor("mj-column", <<<<"direction", "rtl">>>>), Bp(Width("320px"))>>,
   <<Element("mj-blink", <<>>, <<>>)>>}

DocBodies ==
  {<<>>,
   <<Column(<<>>, <<>>)>>,
   <<Column(<<<<"width", "50%">>>>, <<CommentNode("note"), TextNode("hi")>>)>>,
   <<Element("mj-marquee", <<>>, <<>>)>>}

DocItems ==
  {Element("mj-head", <<>>, h) : h \in DocHeads}
  \cup {Element("mj-body", <<>>, b) : b \in DocBodies}
  \cup {Element("mj-foo", <<>>, <<>>), Element("mj-bar", <<>>, <<>>),
        CommentNode("top"), TokErr}

Inputs ==
  {Element("mjml", <<>>, items) : items \in SeqsUpTo(DocItems, MaxItems)}
  \cup {Element("mjml", <<>>, <<Element("mj-head", <<>>, h)>>) :
          h \in SeqsUpTo(HeadChildren, MaxHeadChildren)}
  \cup {Element("html", <<>>, <<>>), Element("html", <<>>, <<TokErr>>), TextNode("hi")}

ColIdle ==
  /\ colIn = <<>> /\ colPc = "idle" /\ colNode = <<>>
  /\ colParser = <<>> /\ column = <<>>

BpIdle == bpIn = <<>> /\ bpPc = "idle" /\ bpElem = <<>> /\ bpHeader = <<>>

DocIdle ==
  /\ options = OptionsDefault /\ input = <<>> /\ pc = "idle" /\ tokens = <<>>
  /\ parser = NoParser /\ bodyHeader = <<>> /\ result = Pending
  /\ calls = <<>> /\ ret = <<>>

Init ==
  /\ options \in [breakpoint : {Pixel(DefaultBreakpoint), Pixel(400)},
                   keep_comments : BOOLEAN]
  /\ input \in Inputs
  /\ pc = "start"
  /\ tokens = <<>>
  /\ parser = NoParser
  /\ bodyHeader = <<>>
  /\ result = Pending
  /\ calls = <<>>
  /\ ret = <<>>
  /\ ColIdle /\ BpIdle

\* ------------------------------------------------------- lib.rs: parse
\* parser::parse(input, parser_options)? : the whole markup is tokenized
\* into the root node before any element is built
LibParserParse ==
  /\ pc = "start"
  /\ IF HasTokErr(<<input>>)
     THEN /\ result' = Failed(ParserError)
          /\ pc' = "done"
          /\ tokens' = tokens
     ELSE /\ result' = result
          /\ pc' = "root"
          /\ tokens' = DropComments(input.children, options.keep_comments)
  /\ UNCHANGED <<options, input, parser, bodyHeader, calls, ret, colVars, bpVars>>

\* faulty variant: any root element is taken for <mjml>
ParseRootAnyTag ==
  /\ pc = "root"
  /\ IF input.kind = "element"
     THEN /\ parser' = MJMLElementParserNew(options)
          /\ pc' = "children"
          /\ result' = result
     ELSE /\ result' = Failed(InvalidChild)
          /\ pc' = "done"
          /\ parser' = parser
  /\ UNCHANGED <<options, input, tokens, bodyHeader, calls, ret, colVars, bpVars>>

\* MJMLElement::parse_root: the first token decides
ParseRoot ==
  /\ pc = "root"
  /\ IF input.kind = "element"
     THEN IF input.tag = "mjml"
          THEN /\ parser' = MJMLElementParserNew(options)
               /\ pc' = "children"
               /\ result' = result
          ELSE /\ result' = Failed(UnexpectedElement(input.tag))
               /\ pc' = "done"
               /\ parser' = parser
     ELSE /\ result' = Failed(InvalidChild)
          /\ pc' = "done"
          /\ parser' = parser
  /\ UNCHANGED <<options, input, tokens, bodyHeader, calls, ret, colVars, bpVars>>

\* faulty variant: an unknown child of <mjml> is skipped
ChildElementSkipUnknown(p, child) ==
  CASE child.tag = "mj-head" ->
         LET r == MJHeadParse(child, p.options)
         IN IF r.ok THEN [ok |-> TRUE, parser |-> [p EXCEPT !.head = r.head],
                          err |-> <<>>, header |-> <<>>]
            ELSE [ok |-> FALSE, parser |-> p, err |-> r.err, header |-> <<>>]
    [] child.tag = "mj-body" ->
         LET r == MJBodyParse(child, p.head.header)
         IN IF r.ok THEN [ok |-> TRUE, parser |-> [p EXCEPT !.body = <<r.body>>],
                          err |-> <<>>, header |-> <<p.head.header>>]
            ELSE [ok |-> FALSE, parser |-> p, err |-> r.err,
                  header |-> <<p.head.header>>]
    [] OTHER -> [ok |-> TRUE, parser |-> p, err |-> <<>>, header |-> <<>>]

\* faulty variant: only the first mj-body is kept
ChildElementFirstBody(p, child) ==
  CASE child.tag = "mj-head" ->
         LET r == MJHeadParse(child, p.options)
         IN IF r.ok THEN [ok |-> TRUE, parser |-> [p EXCEPT !.head = r.head],
                          err |-> <<>>, header |-> <<>>]
            ELSE [ok |-> FALSE, parser |-> p, err |-> r.err, header |-> <<>>]
    [] child.tag = "mj-body" ->
         LET r == MJBodyParse(child, p.head.header)
         IN IF r.ok
            THEN [ok |-> TRUE,
                  parser |-> IF p.body = <<>> THEN [p EXCEPT !.body = <<r.body>>] ELSE p,
                  err |-> <<>>, header |-> <<p.head.header>>]
            ELSE [ok |-> FALSE, parser |-> p, err |-> r.err,
                  header |-> <<p.head.header>>]
    [] OTHER -> [ok |-> FALSE, parser |-> p,
                 err |-> <<UnexpectedElement(child.tag)>>, header |-> <<>>]

\* MJMLElementParser::parse_child_element(tag, tokenizer); header is the
\* argument handed to MJBody::parse, when the call is made
ChildElement(p, child) ==
  CASE child.tag = "mj-head" ->
         LET r == MJHeadParse(child, p.options)
         IN IF r.ok THEN [ok |-> TRUE, parser |-> [p EXCEPT !.head = r.head],
                          err |-> <<>>, header |-> <<>>]
            ELSE [ok |-> FALSE, parser |-> p, err |-> r.err, header |-> <<>>]
    [] child.tag = "mj-body" ->
         LET r == MJBodyParse(child, p.head.header)
         IN IF r.ok THEN [ok |-> TRUE, parser |-> [p EXCEPT !.body = <<r.body>>],
                          err |-> <<>>, header |-> <<p.head.header>>]
            ELSE [ok |-> FALSE, parser |-> p, err |-> r.err,
                  header |-> <<p.head.header>>]
    [] OTHER -> [ok |-> FALSE, parser |-> p,
                 err |-> <<UnexpectedElement(child.tag)>>, header |-> <<>>]

ParseChildElement ==
  /\ pc = "children"
  /\ tokens # <<>>
  /\ Head(tokens).kind = "element"
  /\ LET r == ChildElement(parser, Head(tokens))
     IN /\ parser' = r.parser
        /\ bodyHeader' = IF r.header # <<>> THEN r.header ELSE bodyHeader
        /\ IF r.ok
           THEN /\ tokens' = Tail(tokens)
                /\ pc' = pc
                /\ result' = result
           ELSE /\ tokens' = tokens
                /\ pc' = "done"
                /\ result' = Failed(r.err[1])
  /\ UNCHANGED <<options, input, calls, ret, colVars, bpVars>>

\* MJMLElementParser::parse_child_comment: ignored with a warning
ParseChildComment ==
  /\ pc = "children"
  /\ tokens # <<>>
  /\ Head(tokens).kind = "comment"
  /\ tokens' = Tail(tokens)
  /\ UNCHANGED <<options, input, pc, parser, bodyHeader, result, calls, ret,
                 colVars, bpVars>>

\* MJMLElementParser::build
MJMLBuild(p) ==
  LET body == IF p.body # <<>> THEN p.body[1] ELSE MJBodyEmpty
      withContext == [body EXCEPT !.context = "default"]
  IN [context |-> p.context,
      head |-> [p.head EXCEPT !.header = BodyUpdateHeader(withContext, @)],
      body |-> withContext]

\* the closing </mjml> is reached: MJMLElementParser::build, and parse returns
Build ==
  /\ pc = "children"
  /\ tokens = <<>>
  /\ result' = Ok(MJMLBuild(parser))
  /\ pc' = "done"
  /\ UNCHANGED <<options, input, tokens, parser, bodyHeader, calls, ret,
                 colVars, bpVars>>

\* ------------------------------------------------- getters of MJMLElement
\* each returns its output and the element as the call leaves it (&self)

\* faulty variant: get_title records the access in the header
MJMLGetTitleTouch(doc) ==
  [out |-> HeadGetTitle(doc.head),
   self |-> [doc EXCEPT !.head.header.title = "read"]]

\* MJMLElement::get_title
MJMLGetTitle(doc) == [out |-> HeadGetTitle(doc.head), self |-> doc]

\* MJMLElement::get_preview
MJMLGetPreview(doc) == [out |-> HeadGetPreview(doc.head), self |-> doc]

\* faulty variant: a render-time cache grows in the header on every render
MJMLGetHtmlCaching(doc) ==
  LET header == doc.head.header
  IN [out |-> [doctype |-> "<!doctype html>",
               head |-> HeadRender(doc.head, header),
               body |-> BodyRender(doc.body, header)],
      self |-> [doc EXCEPT !.head.header.media_queries = @ \cup {"rendered"}]]

\* MJMLElement::get_html
MJMLGetHtml(doc) ==
  LET header == doc.head.header
  IN [out |-> [doctype |-> "<!doctype html>",
               head |-> HeadRender(doc.head, header),
               body |-> BodyRender(doc.body, header)],
      self |-> doc]

Built == pc = "done" /\ result.status = "ok"

CallGetter(fn, r) ==
  /\ Built
  /\ ret = <<>>
  /\ Len(calls) < MaxCalls
  /\ calls' = Append(calls, [fn |-> fn, out |-> r.out])
  /\ result' = Ok(r.self)
  /\ UNCHANGED <<options, input, pc, tokens, parser, bodyHeader, ret, colVars, bpVars>>

GetTitle == CallGetter("get_title", MJMLGetTitle(result.doc[1]))
GetPreview == CallGetter("get_preview", MJMLGetPreview(result.doc[1]))
GetHtml == CallGetter("get_html", MJMLGetHtml(result.doc[1]))

\* ------------------------------------------------- lib.rs: entry points
Returned(fn, value) == [fn |-> fn, ok |-> TRUE, value |-> <<value>>, err |-> <<>>]
ReturnedErr(fn, err) == [fn |-> fn, ok |-> FALSE, value |-> <<>>, err |-> <<err>>]

EntryPoint(r) ==
  /\ pc = "done"
  /\ ret = <<>>
  /\ calls = <<>>
  /\ ret' = <<r>>
  /\ UNCHANGED <<options, input, pc, tokens, parser, bodyHeader, result, calls,
                 colVars, bpVars>>

\* to_title: parse(input, options)? then get_title
ToTitle ==
  EntryPoint(IF result.status = "ok"
             THEN Returned("to_title", MJMLGetTitle(result.doc[1]).out)
             ELSE ReturnedErr("to_title", result.err[1]))

\* to_preview
ToPreview ==
  EntryPoint(IF result.status = "ok"
             THEN Returned("to_preview", MJMLGetPreview(result.doc[1]).out)
             ELSE ReturnedErr("to_preview", result.err[1]))

\* to_html
ToHtml ==
  EntryPoint(IF result.status = "ok"
             THEN Returned("to_html", MJMLGetHtml(result.doc[1]).out)
             ELSE ReturnedErr("to_html", result.err[1]))

\* to_email: subject, text and html of the same element
ToEmail ==
  EntryPoint(IF result.status = "ok"
             THEN LET element == result.doc[1]
                      subject == MJMLGetTitle(element)
                      text == MJMLGetPreview(subject.self)
                      html == MJMLGetHtml(text.self)
                  IN Returned("to_email",
                              [subject |-> subject.out, text |-> text.out,
                               html |-> html.out])
             ELSE ReturnedErr("to_email", result.err[1]))

Next ==
  \/ LibParserParse \/ ParseRoot \/ ParseChildElement \/ ParseChildComment \/ Build
  \/ GetTitle \/ GetPreview \/ GetHtml
  \/ ToTitle \/ ToPreview \/ ToHtml \/ ToEmail

Spec == Init /\ [][Next]_vars

\* ------------------------------------------------ mj-column on its own
CascadeNames == {"direction", "width"}
PartialMaps(names, v) == {[k \in S |-> v] : S \in SUBSET names}

ColumnInputs ==
  [keep_comments : BOOLEAN,
   header : {[HeaderFrom(OptionsDefault) EXCEPT
                !.default_attributes =
                   [t \in Tags |-> IF t = "mj-column" THEN c
                                   ELSE ("direction" :> "text-default")]] :
             c \in PartialMaps(CascadeNames, "c")},
   extra : {<<>>} \cup {<<e>> : e \in PartialMaps(CascadeNames, "e")},
   node : {Column(a, ch) :
             a \in SeqsUpTo(CascadeNames \X {"l1", "l2"}, MaxAttrs),
             ch \in SeqsUpTo({CommentNode("note"), TextNode("hi")}, MaxChildren)}]

InitColumn ==
  /\ colIn \in ColumnInputs
  /\ colPc = "start"
  /\ colNode = <<>>
  /\ colParser = <<>>
  /\ column = <<>>
  /\ DocIdle /\ BpIdle

\* parser::parse: the tokenizer pass, then MJColumnParser::new
ColumnTokenize ==
  /\ colPc = "start"
  /\ colNode' = DropComments(<<colIn.node>>, colIn.keep_comments)[1]
  /\ colParser' = MJColumnParserNew(colIn.header, colIn.extra)
  /\ colPc' = "attrs"
  /\ UNCHANGED <<colIn, column, docVars, bpVars>>

\* an attribute token: parse_attribute
ColumnAttribute ==
  /\ colPc = "attrs"
  /\ colNode.attrs # <<>>
  /\ colParser' = ColumnParseAttribute(colParser, Head(colNode.attrs)[1],
                                       Head(colNode.attrs)[2])
  /\ colNode' = [colNode EXCEPT !.attrs = Tail(@)]
  /\ UNCHANGED <<colIn, colPc, column, docVars, bpVars>>

\* the tag is open: children follow
ColumnOpen ==
  /\ colPc = "attrs"
  /\ colNode.attrs = <<>>
  /\ colPc' = "children"
  /\ UNCHANGED <<colIn, colNode, colParser, column, docVars, bpVars>>

\* a comment token: parse_child_comment
ColumnComment ==
  /\ colPc = "children"
  /\ colNode.children # <<>>
  /\ Head(colNode.children).kind = "comment"
  /\ colParser' = ColumnParseChildComment(colParser, Head(colNode.children).text)
  /\ colNode' = [colNode EXCEPT !.children = Tail(@)]
  /\ UNCHANGED <<colIn, colPc, column, docVars, bpVars>>

\* a text token: parse_child_text
ColumnText ==
  /\ colPc = "children"
  /\ colNode.children # <<>>
  /\ Head(colNode.children).kind = "text"
  /\ colParser' = ColumnParseChildText(colParser, Head(colNode.children).text)
  /\ colNode' = [colNode EXCEPT !.children = Tail(@)]
  /\ UNCHANGED <<colIn, colPc, column, docVars, bpVars>>

\* the closing tag: build
ColumnBuild ==
  /\ colPc = "children"
  /\ colNode.children = <<>>
  /\ column' = <<MJColumnBuild(colParser)>>
  /\ colPc' = "built"
  /\ UNCHANGED <<colIn, colNode, colParser, docVars, bpVars>>

NextColumn ==
  \/ ColumnTokenize \/ ColumnAttribute \/ ColumnOpen
  \/ ColumnComment \/ ColumnText \/ ColumnBuild

SpecColumn == InitColumn /\ [][NextColumn]_vars

\* --------------------------------------------- mj-breakpoint on its own
BreakpointInputs ==
  [attrs : SeqsUpTo({"width", "id"} \X {"600px", "abc", "50%"}, MaxAttrs),
   header : {[HeaderFrom(OptionsDefault) EXCEPT !.title = "T"],
             [HeaderFrom(OptionsDefault) EXCEPT !.breakpoint = Pixel(320)]}]

InitBreakpoint ==
  /\ bpIn \in BreakpointInputs
  /\ bpPc = "parse"
  /\ bpElem = <<>>
  /\ bpHeader = bpIn.header
  /\ DocIdle /\ ColIdle

\* MJBreakpoint::parse(node)
BreakpointParse ==
  /\ bpPc = "parse"
  /\ bpElem' = <<MJBreakpointParse(bpIn.attrs)>>
  /\ bpPc' = "update"
  /\ UNCHANGED <<bpIn, bpHeader, docVars, colVars>>

\* update_header(&mut header)
BreakpointUpdate ==
  /\ bpPc = "update"
  /\ bpHeader' = BreakpointUpdateHeader(bpElem[1], bpHeader)
  /\ bpPc' = "done"
  /\ UNCHANGED <<bpIn, bpElem, docVars, colVars>>

NextBreakpoint == BreakpointParse \/ BreakpointUpdate

SpecBreakpoint == InitBreakpoint /\ [][NextBreakpoint]_vars

\* =================================================================== claims

\* the value the markup declares for name k on the column: the last
\* attribute token named k, <<>> when there is none
Declared(k) ==
  LET a == colIn.node.attrs
      hits == {i \in DOMAIN a : a[i][1] = k}
  IN IF hits = {} THEN <<>>
     ELSE <<a[CHOOSE i \in hits : \A j \in hits : j <= i][2]>>

Inherited(k) ==
  IF colIn.extra # <<>> /\ k \in DOMAIN colIn.extra[1] THEN <<colIn.extra[1][k]>> ELSE <<>>

ContextOverride(k) ==
  LET c == colIn.header.default_attributes["mj-column"]
  IN IF k \in DOMAIN c THEN <<c[k]>> ELSE <<>>

KindDefault(k) ==
  IF k = "direction" THEN <<"ltr">>
  ELSE IF k = "vertical-align" THEN <<"top">> ELSE <<>>

CascadeExpected(k) ==
  IF Declared(k) # <<>> THEN Declared(k)
  ELSE IF Inherited(k) # <<>> THEN Inherited(k)
  ELSE IF ContextOverride(k) # <<>> THEN ContextOverride(k)
  ELSE KindDefault(k)

Resolved(k) ==
  IF k \in DOMAIN column[1].attributes THEN <<column[1].attributes[k]>> ELSE <<>>

\* C1: in the built mj-column every attribute name resolves to the local
\* declaration when there is one, else the inherited (extra) value, else the
\* context-level override for mj-column, else the hardcoded default, else
\* the key is absent from the attribute store.
C1_CascadePrecedence ==
  colPc = "built" =>
    /\ DOMAIN column[1].attributes \subseteq CascadeNames \cup {"vertical-align"}
    /\ \A k \in CascadeNames \cup {"vertical-align"} : Resolved(k) = CascadeExpected(k)

\* all four layers name "direction" and the local declaration wins, while
\* "width" falls through to the inherited value
C1_Witness ==
  /\ colPc = "built"
  /\ Declared("direction") # <<>> /\ Inherited("direction") # <<>>
  /\ ContextOverride("direction") # <<>>
  /\ Resolved("direction") = Declared("direction")
  /\ Declared("width") = <<>> /\ Inherited("width") # <<>>
  /\ ContextOverride("width") # <<>>
  /\ Resolved("width") = <<"e">>

CommentLeaves(children) == {i \in DOMAIN children : children[i].kind = "comment"}

NoUsableWidth(attrs) ==
  \/ \A i \in DOMAIN attrs : attrs[i][1] # "width"
  \/ \E i \in DOMAIN attrs :
       /\ attrs[i][1] = "width"
       /\ \A j \in 1..(i - 1) : attrs[j][1] # "width"
       /\ attrs[i][2] \notin {"600px", "320px", "50%"}

\* C10: MJBreakpoint::parse always yields an element; without a width
\* attribute, or when the first width attribute is no size, the element has
\* no value and update_header leaves every field of the header as it was.
C10_BreakpointNeverFails ==
  /\ bpPc \in {"update", "done"} =>
       /\ Len(bpElem) = 1
       /\ NoUsableWidth(bpIn.attrs) => bpElem[1].value = <<>>
  /\ (bpPc = "done" /\ NoUsableWidth(bpIn.attrs)) => bpHeader = bpIn.header

\* the first width is invalid, a later one is valid, and the header is untouched
C10_Witness ==
  /\ bpPc = "done"
  /\ bpIn.attrs = <<<<"width", "abc">>, <<"width", "600px">>>>
  /\ bpHeader = bpIn.header

\* --------------------------------------------------------- the document
IsMjml == input.kind = "element" /\ input.tag = "mjml"
Items == IF IsMjml THEN input.children ELSE <<>>

\* positions of the children of <mjml> with the given tag
ItemsTagged(tag) == {i \in DOMAIN Items : Items[i].kind = "element" /\ Items[i].tag = tag}
LastOf(S) == CHOOSE i \in S : \A j \in S : j <= i
FirstOf(S) == CHOOSE i \in S : \A j \in S : i <= j

Doc == result.doc[1]

\* the header as the head section left it
HeadSectionHeader ==
  IF ItemsTagged("mj-head") = {} THEN HeaderFrom(options)
  ELSE MJHeadParse(Items[LastOf(ItemsTagged("mj-head"))], options).head.header

\* C2 (as claimed): whenever a body was parsed, the header it was parsed
\* against is the header of the finished head section of the document.
C2_HeadBeforeBody ==
  (Built /\ bodyHeader # <<>>) => bodyHeader[1] = HeadSectionHeader

\* the header of the document: the parser's head while parsing, the built
\* element's head afterwards
CurHeader == IF result.status = "ok" THEN Doc.head.header ELSE parser.head.header

HeadStep ==
  pc = "children" /\ tokens # <<>> /\ Head(tokens).kind = "element"
  /\ Head(tokens).tag = "mj-head"
BuildStep == pc = "children" /\ tokens = <<>>
\* MJMLElementParser::new creates the header; that is no mutation
CreateStep == pc = "root"

UnknownTags ==
  IF input.kind # "element" THEN {}
  ELSE IF input.tag # "mjml" THEN {input.tag}
  ELSE {Items[i].tag : i \in {j \in DOMAIN Items :
          Items[j].kind = "element" /\ Items[j].tag \notin {"mj-head", "mj-body"}}}

BadHeadChildren(node) ==
  {i \in DOMAIN node.children :
     node.children[i].kind = "element" /\ node.children[i].tag \notin HeadTags}
BadBodyChildren(node) ==
  {i \in DOMAIN node.children :
     node.children[i].kind = "element" /\ node.children[i].tag # "mj-column"}

\* does the child of <mjml> at position i fail, and with what
ItemFails(i) ==
  LET it == Items[i]
  IN CASE it.kind = "tokerr" -> TRUE
       [] it.kind = "comment" -> FALSE
       [] it.tag = "mj-head" -> BadHeadChildren(it) # {}
       [] it.tag = "mj-body" -> BadBodyChildren(it) # {}
       [] OTHER -> TRUE
ItemError(i) ==
  LET it == Items[i]
  IN CASE it.kind = "tokerr" -> ParserError
       [] it.tag = "mj-head" -> UnexpectedElement(it.children[FirstOf(BadHeadChildren(it))].tag)
       [] it.tag = "mj-body" -> UnexpectedElement(it.children[FirstOf(BadBodyChildren(it))].tag)
       [] OTHER -> UnexpectedElement(it.tag)

FailingItems == {i \in DOMAIN Items : ItemFails(i)}
RootFails == ~IsMjml
HasFailure == RootFails \/ FailingItems # {}

\* the first failure, reading the markup from its first character on
FirstFailure ==
  IF input.kind # "element" THEN InvalidChild
  ELSE IF input.tag # "mjml" THEN UnexpectedElement(input.tag)
  ELSE ItemError(FirstOf(FailingItems))

\* C5 (as claimed): a document holding a tag unknown to the root parser
\* yields the unexpected-element error carrying that tag, and no document;
\* stated here for the documents whose unknown tags are their only defect.
C5_UnknownTagRejected ==
  (/\ pc = "done"
   /\ ~HasTokErr(<<input>>)
   /\ \A i \in FailingItems : Items[i].tag \in UnknownTags) =>
    \A t \in UnknownTags : result = Failed(UnexpectedElement(t))

\* C5 (amended): such a document yields an error and no document; the
\* error is the unexpected-element error carrying the first unknown tag
\* whenever the input tokenizes and nothing before that tag fails.
C5_UnknownTagRejectedFirst ==
  (pc = "done" /\ UnknownTags # {}) =>
    /\ result.status = "err" /\ result.doc = <<>> /\ Len(result.err) = 1
    /\ (~HasTokErr(<<input>>) /\ FirstFailure.kind = "UnexpectedElement"
          /\ FirstFailure.tag \in UnknownTags)
         => result = Failed(FirstFailure)

\* two unknown tags under <mjml>: the first is reported
C5_Witness ==
  /\ pc = "done"
  /\ Cardinality(UnknownTags) = 2
  /\ IsMjml
  /\ result = Failed(UnexpectedElement(Items[1].tag))

ReturnsError(e) ==
  ret # <<>> => (~ret[1].ok /\ ret[1].value = <<>> /\ ret[1].err = <<e>>)

BreakpointNodes(node) ==
  FilterSeq(node.children, {c \in HeadChildren : c.tag = "mj-breakpoint"})

\* the mj-breakpoint elements of the document's head, in document order
DocBreakpoints ==
  IF ItemsTagged("mj-head") = {} THEN <<>>
  ELSE BreakpointNodes(Items[LastOf(ItemsTagged("mj-head"))])

ValidWidth(node) == node.attrs # <<>> /\ node.attrs[1][2] \in {"600px", "320px"}
WidthOf(node) == IF node.attrs[1][2] = "600px" THEN Pixel(600) ELSE Pixel(320)

HtmlCalls == {i \in DOMAIN calls : calls[i].fn = "get_html"}

\* C8: the breakpoint of the built document's header, and the one every
\* get_html prints, is the width of the last mj-breakpoint of the head when
\* the head's mj-breakpoint elements carry valid sizes, and the configured
\* Options breakpoint when the head has no mj-breakpoint.
C8_BreakpointPropagation ==
  Built =>
    LET bps == DocBreakpoints
        seen == Doc.head.header.breakpoint
    IN /\ bps = <<>> => seen = options.breakpoint
       /\ (bps # <<>> /\ \A i \in DOMAIN bps : ValidWidth(bps[i]))
            => seen = WidthOf(bps[Len(bps)])
       /\ \A i \in HtmlCalls :
            /\ calls[i].out.head.breakpoint = seen
            /\ \A c \in DOMAIN calls[i].out.body : calls[i].out.body[c].breakpoint = seen

\* 320px then 600px in one head: get_html prints 600px, not the default
C8_Witness ==
  /\ Built
  /\ DocBreakpoints = <<Bp(Width("320px")), Bp(Width("600px"))>>
  /\ HtmlCalls # {}
  /\ \A i \in HtmlCalls : calls[i].out.head.breakpoint = Pixel(600)

\* C9: a successful parse returns one head and one body: the head parsed
\* from the last mj-head (the empty head of the options when there is
\* none) and the body parsed from the last mj-body (the empty body when
\* there is none); <mjml></mjml> parses and to_html returns its html.
C9_DocumentShape ==
  (pc = "done" /\ ~HasFailure) =>
    /\ result.status = "ok" /\ Len(result.doc) = 1
    /\ [Doc.head.header EXCEPT !.media_queries = {}] = HeadSectionHeader
    /\ IF ItemsTagged("mj-body") = {}
       THEN Doc.body = [MJBodyEmpty EXCEPT !.context = "default"]
       ELSE LET node == DropComments(<<Items[LastOf(ItemsTagged("mj-body"))]>>,
                                     options.keep_comments)[1]
            IN Doc.body = [MJBodyParse(node, bodyHeader[1]).body
                             EXCEPT !.context = "default"]
    /\ (ret # <<>> /\ ret[1].fn = "to_html") => ret[1].ok

\* two mj-body sections of different content: the last one is the body
C9_Witness ==
  /\ Built
  /\ Cardinality(ItemsTagged("mj-body")) = 2
  /\ Items[1].children # <<>> /\ Items[2].children = <<>>
  /\ Doc.body.children = <<>>

====
